---- MODULE Spec2Model ----
(***************************************************************************)
(* Model of pkg/sources/summary/client.go: the kubelet summary client.     *)
(*                                                                         *)
(* Text is modelled as sequences of one-character strings so that the      *)
(* conversions the client performs (strconv.Itoa, net.JoinHostPort,        *)
(* fmt %s / %q, url.URL.String, url.Parse, json.Unmarshal) are computed    *)
(* rather than assumed.  The literal text of an error format string is     *)
(* kept as one token of the message, the formatted operands as characters. *)
(*                                                                         *)
(* stats.Summary is declared outside this file; a struct of one text field *)
(* and one numeric field stands for it.  client.Do is one request and one  *)
(* outcome: a response, a transport error, or the context's error.  The    *)
(* nil-client fallback to http.DefaultClient and the glog line change no   *)
(* result and are left out.                                                *)
(***************************************************************************)
EXTENDS Integers, Sequences, FiniteSets, TLC

\* ------------------------------------------------------------------------
\* Characters and generic string helpers
\* ------------------------------------------------------------------------
LowerSeq == <<"a","b","c","d","e","f","g","h","i","j","k","l","m",
              "n","o","p","q","r","s","t","u","v","w","x","y","z">>

UpperSeq == <<"A","B","C","D","E","F","G","H","I","J","K","L","M",
              "N","O","P","Q","R","S","T","U","V","W","X","Y","Z">>

DigitSeq == <<"0","1","2","3","4","5","6","7","8","9">>

Range(s) == {s[i] : i \in 1..Len(s)}

Lower == Range(LowerSeq)

Upper == Range(UpperSeq)

Digits == Range(DigitSeq)

HexDigits == Digits \cup {"a","b","c","d","e","f","A","B","C","D","E","F"}

DigitVal(c) == (CHOOSE i \in 1..10 : DigitSeq[i] = c) - 1

ToLowerChar(c) ==
  IF c \in Upper THEN LowerSeq[CHOOSE i \in 1..26 : UpperSeq[i] = c] ELSE c

ToLower(s) == [i \in 1..Len(s) |-> ToLowerChar(s[i])]

Positions(s, c) == {i \in 1..Len(s) : s[i] = c}

Min(S) == CHOOSE i \in S : \A j \in S : i <= j

Max(S) == CHOOSE i \in S : \A j \in S : i >= j

\* strings.IndexByte / strings.LastIndexByte; 0 when absent
IndexByte(s, c) == IF Positions(s, c) = {} THEN 0 ELSE Min(Positions(s, c))

LastIndexByte(s, c) == IF Positions(s, c) = {} THEN 0 ELSE Max(Positions(s, c))

HasPrefix(s, p) == Len(s) >= Len(p) /\ SubSeq(s, 1, Len(p)) = p

HasSuffix(s, p) == Len(s) >= Len(p) /\ SubSeq(s, Len(s) - Len(p) + 1, Len(s)) = p

\* strings.Contains
Contains(s, sub) ==
  \E i \in 0..(Len(s) - Len(sub)) : SubSeq(s, i + 1, i + Len(sub)) = sub

From(s, i) == SubSeq(s, i, Len(s))

\* the concatenation of the texts ss[lo..hi]
RECURSIVE FlattenRange(_, _, _)
FlattenRange(ss, lo, hi) ==
  IF lo > hi THEN <<>>
  ELSE IF lo = hi THEN ss[lo]
  ELSE FlattenRange(ss, lo, (lo + hi) \div 2) \o FlattenRange(ss, (lo + hi) \div 2 + 1, hi)

Flatten(ss) == FlattenRange(ss, 1, Len(ss))

\* strconv.Itoa for the non-negative ports the configuration carries
RECURSIVE Itoa(_)
Itoa(n) == IF n < 10 THEN <<DigitSeq[n + 1]>>
           ELSE Itoa(n \div 10) \o <<DigitSeq[(n % 10) + 1]>>

RECURSIVE Atoi(_)
Atoi(s) == IF s = <<>> THEN 0
           ELSE 10 * Atoi(SubSeq(s, 1, Len(s) - 1)) + DigitVal(s[Len(s)])

\* strconv.Quote, the %q verb: double quotes around the text, with the
\* double quote and the backslash escaped by a backslash and the line feed
\* written \n
QuoteChar(c) ==
  IF c \in {"\"", "\\"} THEN <<"\\", c>>
  ELSE IF c = "\n" THEN <<"\\", "n">>
  ELSE <<c>>

Quote(s) == <<"\"">> \o Flatten([i \in 1..Len(s) |-> QuoteChar(s[i])]) \o <<"\"">>

\* ------------------------------------------------------------------------
\* net.JoinHostPort
\* ------------------------------------------------------------------------
\* variant: the host is never bracketed
JoinHostPort_NoBrackets(host, port) == host \o <<":">> \o port

JoinHostPort(host, port) ==
  IF IndexByte(host, ":") > 0 \/ IndexByte(host, "%") > 0
  THEN <<"[">> \o host \o <<"]", ":">> \o port
  ELSE host \o <<":">> \o port

\* ------------------------------------------------------------------------
\* net/url: escaping, URL.String, Parse, Hostname, Port
\* ------------------------------------------------------------------------
encodePath == "encodePath"

encodeHost == "encodeHost"

Alnum == Lower \cup Upper \cup Digits

HostAllowed == {"!","$","&","'","(",")","*","+",",",";","=",":","[","]","<",">","\""}

Unreserved == {"-","_",".","~"}

Reserved == {"$","&","+",",","/",":",";","=","?","@"}

shouldEscape(c, mode) ==
  IF c \in Alnum THEN FALSE
  ELSE IF mode = encodeHost /\ c \in HostAllowed THEN FALSE
  ELSE IF c \in Unreserved THEN FALSE
  ELSE IF c \in Reserved /\ mode = encodePath THEN c = "?"
  ELSE TRUE

\* upper-case hexadecimal byte value of the escapable characters modelled
HexTable == << <<" ", <<"2","0">> >>, <<"\"", <<"2","2">> >>, <<"%", <<"2","5">> >>,
               <<"/", <<"2","F">> >>, <<"?", <<"3","F">> >>, <<"@", <<"4","0">> >>,
               <<"[", <<"5","B">> >>, <<"\\", <<"5","C">> >>, <<"]", <<"5","D">> >>,
               <<"{", <<"7","B">> >>, <<"}", <<"7","D">> >> >>

HexOf(c) ==
  IF \E i \in 1..Len(HexTable) : HexTable[i][1] = c
  THEN HexTable[CHOOSE i \in 1..Len(HexTable) : HexTable[i][1] = c][2]
  ELSE <<"x","x">>

CharOfHex(h) ==
  IF \E i \in 1..Len(HexTable) : HexTable[i][2] = h
  THEN HexTable[CHOOSE i \in 1..Len(HexTable) : HexTable[i][2] = h][1]
  ELSE "<byte>"

escapeChar(c, mode) == IF shouldEscape(c, mode) THEN <<"%">> \o HexOf(c) ELSE <<c>>

escape(s, mode) == Flatten([i \in 1..Len(s) |-> escapeChar(s[i], mode)])

Failed == [ok |-> FALSE, val |-> <<>>]

\* the byte at i is one of the two hexadecimal digits of an escape
InEscape(s, i) == (i > 1 /\ s[i - 1] = "%") \/ (i > 2 /\ s[i - 2] = "%")

\* a "%" at i starts a well-formed escape that mode admits: a host may
\* carry no %XX of an ASCII byte but %25
validEscape(s, mode, i) ==
  /\ i + 2 <= Len(s)
  /\ s[i + 1] \in HexDigits
  /\ s[i + 2] \in HexDigits
  /\ ~(mode = encodeHost /\ s[i + 1] \in {"0","1","2","3","4","5","6","7"}
         /\ <<s[i + 1], s[i + 2]>> # <<"2","5">>)

\* the byte at i may stand in text of mode: a host may carry no byte that
\* shouldEscape would have escaped
validByte(s, mode, i) ==
  IF s[i] = "%" THEN validEscape(s, mode, i)
  ELSE InEscape(s, i) \/ ~(mode = encodeHost /\ shouldEscape(s[i], encodeHost))

unescapeAt(s, i) ==
  IF s[i] = "%" THEN <<CharOfHex(<<s[i + 1], s[i + 2]>>)>>
  ELSE IF InEscape(s, i) THEN <<>>
  ELSE <<s[i]>>

\* unescape: [ok, val]
unescape(s, mode) ==
  IF \E i \in 1..Len(s) : ~validByte(s, mode, i) THEN Failed
  ELSE [ok |-> TRUE, val |-> Flatten([i \in 1..Len(s) |-> unescapeAt(s, i)])]

\* the text URL.String puts after the scheme when Opaque is empty
HierPart(scheme, host, path) ==
  (IF (scheme # <<>> \/ host # <<>>) /\ (host # <<>> \/ path # <<>>)
   THEN <<"/","/">> ELSE <<>>)
    \o escape(host, encodeHost)
    \o (IF path # <<>> /\ path[1] # "/" /\ host # <<>> THEN <<"/">> ELSE <<>>)
    \o path

\* URL.String of a URL without User, RawPath or Fragment
URLString(u) ==
  (IF u.Scheme # <<>> THEN u.Scheme \o <<":">> ELSE <<>>)
    \o (IF u.Opaque # <<>> THEN u.Opaque
        ELSE HierPart(u.Scheme, u.Host, escape(u.Path, encodePath)))
    \o (IF u.RawQuery # <<>> THEN <<"?">> \o u.RawQuery ELSE <<>>)

validOptionalPort(port) ==
  port = <<>> \/ (port[1] = ":" /\ \A i \in 2..Len(port) : port[i] \in Digits)

SchemeBytes == Alnum \cup {"+","-","."}

\* the index of the first byte of raw that cannot be part of a scheme
SchemeEnd(raw) ==
  IF \A i \in 1..Len(raw) : raw[i] \in SchemeBytes THEN Len(raw) + 1
  ELSE Min({i \in 1..Len(raw) : raw[i] \notin SchemeBytes})

\* getScheme: [ok, scheme, rest]
getSchemeAt(raw, i) ==
  IF raw = <<>> \/ raw[1] \notin Lower \cup Upper \cup {":"} \/ i > Len(raw) \/ raw[i] # ":"
    THEN [ok |-> TRUE, scheme |-> <<>>, rest |-> raw]
  ELSE IF i = 1 THEN [ok |-> FALSE, scheme |-> <<>>, rest |-> <<>>]
  ELSE [ok |-> TRUE, scheme |-> SubSeq(raw, 1, i - 1), rest |-> From(raw, i + 1)]

getScheme(raw) == getSchemeAt(raw, SchemeEnd(raw))

\* the text of host after its last "]" (bracketed) or from its last ":"
colonPort(host) ==
  IF HasPrefix(host, <<"[">>) THEN From(host, LastIndexByte(host, "]") + 1)
  ELSE IF LastIndexByte(host, ":") # 0 THEN From(host, LastIndexByte(host, ":"))
  ELSE <<>>

\* parseHost: [ok, val]
parseHost(host) ==
  IF HasPrefix(host, <<"[">>) /\ LastIndexByte(host, "]") = 0 THEN Failed
  ELSE IF ~validOptionalPort(colonPort(host)) THEN Failed
  ELSE unescape(host, encodeHost)

NoURL == [ok |-> FALSE, Scheme |-> <<>>, Opaque |-> <<>>, Host |-> <<>>,
          Path |-> <<>>, RawQuery |-> <<>>]

\* strings.Cut at a byte
Before(s, i) == IF i = 0 THEN s ELSE SubSeq(s, 1, i - 1)

After(s, i) == IF i = 0 THEN <<>> ELSE From(s, i + 1)

\* the URL of a parsed host and path
MakeURL(scheme, host, path, query) ==
  IF ~host.ok \/ ~path.ok THEN NoURL
  ELSE [ok |-> TRUE, Scheme |-> scheme, Opaque |-> <<>>, Host |-> host.val,
        Path |-> path.val, RawQuery |-> query]

\* the authority and the path that follow "//"
ParseAuthority(scheme, rest, slash, query) ==
  MakeURL(scheme, parseHost(Before(rest, slash)),
          unescape(IF slash = 0 THEN <<>> ELSE From(rest, slash), encodePath), query)

\* url.Parse after the scheme and the query are cut off
ParseRest(scheme, rest, query) ==
  IF ~HasPrefix(rest, <<"/">>) /\ scheme # <<>>
    THEN [NoURL EXCEPT !.ok = TRUE, !.Scheme = scheme, !.Opaque = rest, !.RawQuery = query]
  ELSE IF ~HasPrefix(rest, <<"/">>) /\ IndexByte(Before(rest, IndexByte(rest, "/")), ":") > 0
    THEN NoURL
  ELSE IF HasPrefix(rest, <<"/","/">>) /\ (scheme # <<>> \/ ~HasPrefix(rest, <<"/","/","/">>))
    THEN ParseAuthority(scheme, From(rest, 3), IndexByte(From(rest, 3), "/"), query)
  ELSE MakeURL(scheme, [ok |-> TRUE, val |-> <<>>], unescape(rest, encodePath), query)

ParseScheme(gs, q) ==
  IF ~gs.ok THEN NoURL
  ELSE ParseRest(ToLower(gs.scheme), Before(gs.rest, q), After(gs.rest, q))

ParseQuery(gs) == ParseScheme(gs, IndexByte(gs.rest, "?"))

\* url.Parse of text without fragment or userinfo:
\* [ok, Scheme, Opaque, Host, Path, RawQuery]
Parse(raw) == ParseQuery(getScheme(raw))

StripBrackets(h) ==
  IF HasPrefix(h, <<"[">>) /\ HasSuffix(h, <<"]">>) THEN SubSeq(h, 2, Len(h) - 1) ELSE h

\* splitHostPort, behind URL.Hostname and URL.Port
splitAt(hostPort, colon) ==
  IF colon # 0 /\ validOptionalPort(From(hostPort, colon))
  THEN [host |-> StripBrackets(SubSeq(hostPort, 1, colon - 1)), port |-> From(hostPort, colon + 1)]
  ELSE [host |-> StripBrackets(hostPort), port |-> <<>>]

splitHostPort(hostPort) == splitAt(hostPort, LastIndexByte(hostPort, ":"))

Hostname(u) == splitHostPort(u.Host).host

Port(u) == splitHostPort(u.Host).port

\* hasPort / removeEmptyPort, applied by http.NewRequest to the parsed host
hasPort(s) == LastIndexByte(s, ":") > LastIndexByte(s, "]")

removeEmptyPort(host) ==
  IF hasPort(host) /\ HasSuffix(host, <<":">>) THEN SubSeq(host, 1, Len(host) - 1) ELSE host

\* ------------------------------------------------------------------------
\* encoding/json: the decoder, for a stand-in of stats.Summary with a text
\* field "node" and a numeric field "pods", and bodies that are one flat
\* JSON object of string and number members, without white space or escapes
\* ------------------------------------------------------------------------
S_node == <<"n","o","d","e">>

S_pods == <<"p","o","d","s">>

\* the value new(stats.Summary) points to
EmptySummary == [ptr |-> TRUE, node |-> <<>>, pods |-> 0]

\* the nil *stats.Summary
NilSummary == [ptr |-> FALSE, node |-> <<>>, pods |-> 0]

NoScan == [ok |-> FALSE, val |-> <<>>, rest |-> <<>>]

\* a JSON string at the head of s, closed at index close of Tail(s):
\* [ok, val, rest]
scanStringTo(s, close) ==
  IF close = 0 THEN NoScan
  ELSE [ok |-> TRUE, val |-> SubSeq(s, 2, close), rest |-> From(s, close + 2)]

scanString(s) ==
  IF s = <<>> \/ Head(s) # "\"" THEN NoScan
  ELSE scanStringTo(s, IndexByte(Tail(s), "\""))

\* the number of digits at the head of s
digitsOf(s) ==
  IF \A i \in 1..Len(s) : s[i] \in Digits THEN Len(s)
  ELSE Min({i \in 1..Len(s) : s[i] \notin Digits}) - 1

\* a JSON number (digits only) at the head of s: [ok, val, rest]
scanNumberTo(s, n) ==
  IF n = 0 \/ (n > 1 /\ s[1] = "0") THEN NoScan
  ELSE [ok |-> TRUE, val |-> SubSeq(s, 1, n), rest |-> From(s, n + 1)]

scanNumber(s) == scanNumberTo(s, digitsOf(s))

NoMembers == [ok |-> FALSE, members |-> <<>>]

Member(key, kind, val) == [key |-> key, kind |-> kind, val |-> val]

AndMore(m, more) == [ok |-> more.ok, members |-> <<m>> \o more.members]

RECURSIVE scanMembers(_)

\* what follows the value v of the member named key
scanMemberEnd(key, kind, v) ==
  IF ~v.ok \/ v.rest = <<>> THEN NoMembers
  ELSE IF v.rest = <<"}">> THEN [ok |-> TRUE, members |-> <<Member(key, kind, v.val)>>]
  ELSE IF Head(v.rest) = "," THEN AndMore(Member(key, kind, v.val), scanMembers(Tail(v.rest)))
  ELSE NoMembers

\* the colon and the value that follow the key k
scanMemberValue(k) ==
  IF ~k.ok \/ k.rest = <<>> \/ Head(k.rest) # ":" THEN NoMembers
  ELSE IF Len(k.rest) >= 2 /\ k.rest[2] = "\""
    THEN scanMemberEnd(k.val, "string", scanString(Tail(k.rest)))
  ELSE scanMemberEnd(k.val, "number", scanNumber(Tail(k.rest)))

\* the members of an object, s starting at a member: [ok, members]
scanMembers(s) == scanMemberValue(scanString(s))

AsObject(ms) == [ok |-> ms.ok, object |-> TRUE, members |-> ms.members]

IsWhole(v) == v.ok /\ v.rest = <<>>

\* checkValid and the scan of the top-level value: [ok, object, members]
scanValue(body) ==
  IF body = <<"{","}">> THEN [ok |-> TRUE, object |-> TRUE, members |-> <<>>]
  ELSE IF body # <<>> /\ Head(body) = "{" THEN AsObject(scanMembers(Tail(body)))
  ELSE [ok |-> IsWhole(scanString(body)) \/ IsWhole(scanNumber(body)),
        object |-> FALSE, members |-> <<>>]

\* one member stored into the struct: [value, typeErr]
storeMember(v, m) ==
  IF ToLower(m.key) = S_node THEN
    IF m.kind = "string" THEN [value |-> [v EXCEPT !.node = m.val], typeErr |-> FALSE]
    ELSE [value |-> v, typeErr |-> TRUE]
  ELSE IF ToLower(m.key) = S_pods THEN
    IF m.kind = "number" THEN [value |-> [v EXCEPT !.pods = Atoi(m.val)], typeErr |-> FALSE]
    ELSE [value |-> v, typeErr |-> TRUE]
  ELSE [value |-> v, typeErr |-> FALSE]

Stored(one, others) ==
  [value |-> others.value, typeErr |-> one.typeErr \/ others.typeErr]

RECURSIVE storeMembers(_, _)

StoreRest(one, ms) == Stored(one, storeMembers(one.value, ms))

storeMembers(v, ms) ==
  IF ms = <<>> THEN [value |-> v, typeErr |-> FALSE]
  ELSE StoreRest(storeMember(v, Head(ms)), Tail(ms))

SyntaxError == "invalid character or unexpected end of JSON input"

UnmarshalTypeError == "json: cannot unmarshal value into Go struct field"

\* variant: the decoded members are not stored
Unmarshal_Discard(body, value) ==
  [err |-> IF scanValue(body).ok THEN "" ELSE SyntaxError, value |-> value]

UnmarshalStored(st) ==
  [err |-> IF st.typeErr THEN UnmarshalTypeError ELSE "", value |-> st.value]

UnmarshalScanned(sv, value) ==
  IF ~sv.ok THEN [err |-> SyntaxError, value |-> value]
  ELSE IF ~sv.object THEN [err |-> UnmarshalTypeError, value |-> value]
  ELSE UnmarshalStored(storeMembers(value, sv.members))

\* json.Unmarshal(body, value): [err, value]; err is "" for nil.  Invalid
\* text leaves the value untouched; a member of the wrong type is skipped,
\* the rest is stored, and the type error is reported
Unmarshal(body, value) == UnmarshalScanned(scanValue(body), value)

\* ------------------------------------------------------------------------
\* Inputs: configurations, node identifiers, responses
\* ------------------------------------------------------------------------
MaxCalls == 2

StatusOK == 200

StatusNotFound == 404

S_https == <<"h","t","t","p","s">>

S_http == <<"h","t","t","p">>

ProxyPathPrefix == <<"a","p","i","/","v","1","/","n","o","d","e","s","/">>

ProxyPathSuffix == <<"/","p","r","o","x","y","/","s","t","a","t","s","/","s","u","m","m","a","r","y","/">>

DirectPath == <<"/","s","t","a","t","s","/","s","u","m","m","a","r","y","/">>

\* RESTConfig.Host values: URL with port, URL without port, IPv6 URL with
\* the http scheme, a bare host:port pair, and the empty string
Host_Full == <<"h","t","t","p","s",":","/","/","a","p","i","s","e","r","v","e","r",":","6","4","4","3">>

Host_NoPort == <<"h","t","t","p","s",":","/","/","a","p","i","s","e","r","v","e","r">>

Host_V6Http == <<"h","t","t","p",":","/","/","[",":",":","1","]",":","6","4","4","3">>

Host_Bare == <<"1","0",".","0",".","0",".","1",":","6","4","4","3">>

ApiServerHosts == {Host_Full, Host_NoPort, Host_V6Http, Host_Bare, <<>>}

Ports == {10250, 10255}

\* node identifiers: host names, an IPv6 address, and names with a space,
\* a double quote and a question mark
Node_1 == <<"n","o","d","e","-","1">>

Node_2 == <<"n","o","d","e","-","2">>

Node_V6 == <<":",":","1">>

Node_Space == <<"n","o","d","e"," ","3">>

Node_Quote == <<"n","o","d","e","-","\"","4","\"">>

Node_Query == <<"n","o","d","e","?","5">>

Nodes == {Node_1, Node_2, Node_V6, Node_Space, Node_Quote, Node_Query}

Line200 == <<"2","0","0"," ","O","K">>

Line201 == <<"2","0","1"," ","C","r","e","a","t","e","d">>

Line404 == <<"4","0","4"," ","N","o","t"," ","F","o","u","n","d">>

Line500 == <<"5","0","0"," ","I","n","t","e","r","n","a","l"," ","S","e","r","v","e","r"," ","E","r","r","o","r">>

Statuses == {[code |-> 200, line |-> Line200], [code |-> 201, line |-> Line201],
             [code |-> 404, line |-> Line404], [code |-> 500, line |-> Line500]}

Body_A == <<"{","\"","n","o","d","e","\"",":","\"","a","\"",",","\"","p","o","d","s","\"",":","1","}">>

Body_B == <<"{","\"","p","o","d","s","\"",":","2","}">>

Body_Trunc == <<"{","\"","n","o","d","e","\"",":","\"","a","\"">>

Body_Type == <<"{","\"","n","o","d","e","\"",":","1",",","\"","p","o","d","s","\"",":","2","}">>

Body_Text == <<"o","o","p","s","\n">>

Bodies == {Body_A, Body_B, Body_Trunc, Body_Type, Body_Text}

\* what client.Do and ioutil.ReadAll can deliver: a response read in full,
\* or a response whose body could not be read
Responses ==
  {[status |-> st, body |-> b, readOk |-> TRUE] : st \in Statuses, b \in Bodies}
    \cup {[status |-> st, body |-> <<>>, readOk |-> FALSE] : st \in Statuses}

NoResponse == [status |-> [code |-> 0, line |-> <<>>], body |-> <<>>, readOk |-> FALSE]

Configs == [port : Ports, insecureNoTLS : BOOLEAN, useProxy : BOOLEAN,
            apiServerHost : ApiServerHosts]

\* ------------------------------------------------------------------------
\* Errors
\* ------------------------------------------------------------------------
NoError == [type |-> "nil", endpoint |-> <<>>, msg |-> <<>>]

\* &ErrNotFound{endpoint}
ErrNotFound(endpoint) == [type |-> "*ErrNotFound", endpoint |-> endpoint, msg |-> <<>>]

\* fmt.Errorf(...)
Errorf(msg) == [type |-> "*errors.errorString", endpoint |-> <<>>, msg |-> msg]

\* the *url.Error of client.Do and of http.NewRequest
URLError(cause) == [type |-> "*url.Error", endpoint |-> <<>>, msg |-> <<cause>>]

ContextCanceled == "context canceled"

ConnectionRefused == "connection refused"

ReadFailed == "unexpected EOF"

ParseFailed == "invalid URL escape"

\* err.Error()
ErrorText(err) ==
  IF err.type = "*ErrNotFound" THEN Quote(err.endpoint) \o <<" not found">>
  ELSE err.msg

IsNotFoundError(err) == err.type = "*ErrNotFound"

\* ------------------------------------------------------------------------
\* The client
\* ------------------------------------------------------------------------
NoClient == [port |-> 0, deprecatedNoTLS |-> FALSE, useAPIProxy |-> FALSE,
             apiServerHost |-> <<>>]

\* the client NewKubeletClient makes of the parsed RESTConfig.Host
ClientOf(config, apiserverURL) ==
  IF ~apiserverURL.ok THEN [ok |-> FALSE, kc |-> NoClient]
  ELSE [ok |-> TRUE,
        kc |-> [port |-> config.port,
                deprecatedNoTLS |-> config.insecureNoTLS,
                useAPIProxy |-> config.useProxy,
                apiServerHost |-> JoinHostPort(Hostname(apiserverURL), Port(apiserverURL))]]

\* NewKubeletClient(transport, config): [ok, kc]
NewClient(config) == ClientOf(config, Parse(config.apiServerHost))

\* variant: the scheme ignores the insecure flag
SchemeOf_AlwaysTLS(k) == S_https

\* the scheme GetSummary selects
SchemeOf(k) == IF k.deprecatedNoTLS THEN S_http ELSE S_https

\* the path and host GetSummary selects
PathOf(k, host) ==
  IF k.useAPIProxy THEN ProxyPathPrefix \o host \o ProxyPathSuffix ELSE DirectPath

\* variant: the node is addressed directly in both modes
HostOf_AlwaysDirect(k, host) == JoinHostPort(host, Itoa(k.port))

HostOf(k, host) ==
  IF k.useAPIProxy THEN k.apiServerHost ELSE JoinHostPort(host, Itoa(k.port))

\* the url.URL GetSummary assembles
BuildURL(k, host) ==
  [ok |-> TRUE, Scheme |-> SchemeOf(k), Opaque |-> <<>>, Host |-> HostOf(k, host),
   Path |-> PathOf(k, host), RawQuery |-> <<>>]

RequestOf(u) == [ok |-> u.ok, URL |-> [u EXCEPT !.Host = removeEmptyPort(u.Host)]]

\* http.NewRequest("GET", urlStr, nil): [ok, URL]
NewRequest(urlStr) == RequestOf(Parse(urlStr))

\* makeRequestAndGetValue from the return of client.Do on: [err, value,
\* decoded]; decoded records whether json.Unmarshal was called
DoError(cause) == [failed |-> TRUE, cause |-> cause, response |-> NoResponse]

DoResponse(r) == [failed |-> FALSE, cause |-> "", response |-> r]

\* the error of a body that could not be read
ReadError == Errorf(<<"failed to read response body - ", ReadFailed>>)

\* variant: the "not found" status is reported as any other failure
NotFoundError_Generic(reqURL) == Errorf(<<"request failed - ">> \o Quote(URLString(reqURL)))

\* the error of the "not found" status
NotFoundError(reqURL) == ErrNotFound(URLString(reqURL))

\* variant: the body is left out of the message
RequestFailed_NoBody(r) == Errorf(<<"request failed - ">> \o Quote(r.status.line))

\* the error of any other status but 200
RequestFailed(r) ==
  Errorf(<<"request failed - ">> \o Quote(r.status.line)
           \o <<", response: ">> \o Quote(r.body))

\* the error of a body json.Unmarshal rejects
DecodeError(body, cause) ==
  Errorf(<<"failed to parse output. Response: ">> \o Quote(body) \o <<". Error: ", cause>>)

\* whether the status passes the checks before decoding
IsSuccess(code) == code = StatusOK

\* the outcome of json.Unmarshal
Decoded(body, d) ==
  IF d.err # "" THEN [err |-> DecodeError(body, d.err), value |-> d.value, decoded |-> TRUE]
  ELSE [err |-> NoError, value |-> d.value, decoded |-> TRUE]

Undecoded(err, value) == [err |-> err, value |-> value, decoded |-> FALSE]

makeRequestAndGetValue(do, reqURL, value) ==
  IF do.failed THEN Undecoded(URLError(do.cause), value)
  ELSE IF ~do.response.readOk THEN Undecoded(ReadError, value)
  ELSE IF do.response.status.code = StatusNotFound THEN Undecoded(NotFoundError(reqURL), value)
  ELSE IF ~IsSuccess(do.response.status.code) THEN Undecoded(RequestFailed(do.response), value)
  ELSE Decoded(do.response.body, Unmarshal(do.response.body, value))

\* what GetSummary hands back after makeRequestAndGetValue: summary, err
Return(m) == [value |-> m.value, err |-> m.err, decoded |-> m.decoded]

NoReturn == [value |-> NilSummary, err |-> NoError, decoded |-> FALSE]

\* ------------------------------------------------------------------------
\* State
\* ------------------------------------------------------------------------
VARIABLES
  cfg,      \* the KubeletClientConfig given to NewKubeletClient
  pc,       \* "new", "ctorFailed", "idle", "inflight" (inside client.Do), "returned"
  kc,       \* the kubeletClient
  node,     \* the host argument of the current GetSummary call
  url,      \* the url.URL the call assembled
  req,      \* req.URL of the request handed to client.Do
  hasReq,   \* whether http.NewRequest produced a request
  ctxDone,  \* whether the call's context is cancelled
  doCalls,  \* client.Do invocations of the current call
  resp,     \* what client.Do returned to the current call
  ret,      \* what GetSummary returned
  ncalls    \* GetSummary calls made so far

vars == <<cfg, pc, kc, node, url, req, hasReq, ctxDone, doCalls, resp, ret, ncalls>>

Init ==
  /\ cfg \in Configs
  /\ pc = "new"
  /\ kc = NoClient
  /\ node = <<>>
  /\ url = NoURL
  /\ req = NoURL
  /\ hasReq = FALSE
  /\ ctxDone = FALSE
  /\ doCalls = 0
  /\ resp = DoError("")
  /\ ret = NoReturn
  /\ ncalls = 0

Constructed(c) ==
  /\ pc' = IF c.ok THEN "idle" ELSE "ctorFailed"
  /\ kc' = c.kc

\* NewKubeletClient
NewKubeletClient ==
  /\ pc = "new"
  /\ Constructed(NewClient(cfg))
  /\ UNCHANGED <<cfg, node, url, req, hasReq, ctxDone, doCalls, resp, ret, ncalls>>

\* the request of GetSummary goes to client.Do, or http.NewRequest failed
\* and GetSummary returns
Requested(r) ==
  /\ hasReq' = r.ok
  /\ req' = IF r.ok THEN r.URL ELSE NoURL
  /\ pc' = IF r.ok THEN "inflight" ELSE "returned"
  /\ doCalls' = IF r.ok THEN 1 ELSE 0
  /\ ret' = IF r.ok THEN NoReturn
            ELSE [value |-> NilSummary, err |-> URLError(ParseFailed), decoded |-> FALSE]

Assembled(u) ==
  /\ url' = u
  /\ Requested(NewRequest(URLString(u)))

\* GetSummary up to client.Do, where it blocks; or to its return when
\* http.NewRequest fails.  The context may be cancelled already
GetSummaryCall(host, cancelled) ==
  /\ pc \in {"idle", "returned"}
  /\ ncalls < MaxCalls
  /\ Assembled(BuildURL(kc, host))
  /\ node' = host
  /\ ctxDone' = cancelled
  /\ resp' = DoError("")
  /\ ncalls' = ncalls + 1
  /\ UNCHANGED <<cfg, kc>>

\* the caller cancels the context, or its deadline passes, while the
\* request is in flight
CancelContext ==
  /\ pc = "inflight"
  /\ ~ctxDone
  /\ ctxDone' = TRUE
  /\ UNCHANGED <<cfg, pc, kc, node, url, req, hasReq, doCalls, resp, ret, ncalls>>

\* the rest of GetSummary once client.Do has returned do
Finish(do) ==
  /\ resp' = do
  /\ ret' = Return(makeRequestAndGetValue(do, req, EmptySummary))
  /\ pc' = "returned"
  /\ UNCHANGED <<cfg, kc, node, url, req, hasReq, ctxDone, doCalls, ncalls>>

\* client.Do returns a response before the context is done
DoResponds(r) ==
  /\ pc = "inflight"
  /\ ~ctxDone
  /\ Finish(DoResponse(r))

\* variant: a transport failure is retried
DoFails_Retry ==
  /\ pc = "inflight"
  /\ ~ctxDone
  /\ doCalls < 3
  /\ doCalls' = doCalls + 1
  /\ UNCHANGED <<cfg, pc, kc, node, url, req, hasReq, ctxDone, resp, ret, ncalls>>

\* client.Do fails in the transport before the context is done
DoFails ==
  /\ pc = "inflight"
  /\ ~ctxDone
  /\ Finish(DoError(ConnectionRefused))

\* client.Do aborts the request of a cancelled context
DoCancelled ==
  /\ pc = "inflight"
  /\ ctxDone
  /\ Finish(DoError(ContextCanceled))

Next ==
  \/ NewKubeletClient
  \/ \E host \in Nodes, cancelled \in BOOLEAN : GetSummaryCall(host, cancelled)
  \/ CancelContext
  \/ \E r \in Responses : DoResponds(r)
  \/ DoFails
  \/ DoCancelled

Spec == Init /\ [][Next]_vars

\* the transport honours the request's context: a cancelled request in
\* flight is aborted
FairSpec == Spec /\ WF_vars(DoCancelled)

\* ------------------------------------------------------------------------
\* Properties
\* ------------------------------------------------------------------------
Example_URL == <<"h","t","t","p","s",":","/","/","a","p","i","s","e","r","v","e","r",":","6","4","4","3","/","a","p","i","/","v","1","/","n","o","d","e","s","/","n","o","d","e","-","2","/","p","r","o","x","y","/","s","t","a","t","s","/","s","u","m","m","a","r","y","/">>

Example_Direct == <<"h","t","t","p","s",":","/","/","n","o","d","e","-","1",":","1","0","2","5","0","/","s","t","a","t","s","/","s","u","m","m","a","r","y","/">>

Called == ncalls > 0

Returned == pc = "returned"

\* client.Do returned a response to the call that has returned
GotResponse == Returned /\ hasReq /\ ~resp.failed

StatusCode == resp.response.status.code

Is2xx(code) == code \in 200..299

\* %q writes the text as it is
Verbatim(text) == Range(text) \cap {"\"", "\\", "\n"} = {}

\* C1: in proxied mode the URL GetSummary assembles has the host:port
\* extracted from apiServerHost at construction as its host and
\* api/v1/nodes/{nodeIdentifier}/proxy/stats/summary/ as its path, and
\* "https://apiserver:6443" with node "node-2" gives
\* https://apiserver:6443/api/v1/nodes/node-2/proxy/stats/summary/
C1_ProxyURL ==
  (Called /\ cfg.useProxy) =>
    /\ url.Host = JoinHostPort(Hostname(Parse(cfg.apiServerHost)),
                               Port(Parse(cfg.apiServerHost)))
    /\ url.Path = ProxyPathPrefix \o node \o ProxyPathSuffix
    /\ (cfg.apiServerHost = Host_Full /\ node = Node_2 /\ ~cfg.insecureNoTLS) =>
         /\ url.Host = <<"a","p","i","s","e","r","v","e","r",":","6","4","4","3">>
         /\ URLString(url) = Example_URL
         /\ hasReq
         /\ URLString(req) = Example_URL

C1_Witness ==
  /\ pc = "inflight"
  /\ cfg.useProxy
  /\ cfg.apiServerHost = Host_Full
  /\ node = Node_2
  /\ ~cfg.insecureNoTLS

C3_Scheme ==
  Called =>
    /\ url.Scheme = S_http <=> cfg.insecureNoTLS
    /\ url.Scheme = S_https <=> ~cfg.insecureNoTLS
    /\ HasPrefix(URLString(url), url.Scheme \o <<":","/","/">>)
    /\ hasReq => req.Scheme = url.Scheme

C3_Witness ==
  /\ pc = "inflight"
  /\ cfg.useProxy
  /\ cfg.apiServerHost = Host_V6Http
  /\ ~cfg.insecureNoTLS
  /\ req.Scheme = S_https

\* C4 as stated: a response with the "not found" status makes GetSummary
\* return an error IsNotFound accepts, whose message includes the requested
\* URL; the body is not decoded
C4_Original ==
  (GotResponse /\ StatusCode = StatusNotFound) =>
    /\ IsNotFoundError(ret.err)
    /\ Contains(ErrorText(ret.err), URLString(req))
    /\ ~ret.decoded

\* C4 amended: so it is when the body of the response was read without
\* error; the message holds the requested URL in quoted (%q) form, hence
\* verbatim when %q leaves the URL as it is
C4_NotFound ==
  (GotResponse /\ resp.response.readOk /\ StatusCode = StatusNotFound) =>
    /\ IsNotFoundError(ret.err)
    /\ ErrorText(ret.err) = Quote(URLString(req)) \o <<" not found">>
    /\ Verbatim(URLString(req)) => Contains(ErrorText(ret.err), URLString(req))
    /\ ~ret.decoded

C4_Witness ==
  /\ GotResponse
  /\ resp.response.readOk
  /\ StatusCode = StatusNotFound
  /\ IsNotFoundError(ret.err)
  /\ resp.response.body = Body_A

\* C5: GetSummary returns either a decoded summary and no error, or an
\* error and no value, never a value together with an error
C5_ValueOrError ==
  Returned =>
    \/ ret.err = NoError /\ ret.value.ptr /\ ret.decoded
    \/ ret.err # NoError /\ ~ret.value.ptr

\* the summaries the valid bodies spell out
SummaryOf(body) ==
  IF body = Body_A THEN [ptr |-> TRUE, node |-> <<"a">>, pods |-> 1]
  ELSE [ptr |-> TRUE, node |-> <<>>, pods |-> 2]

ValidBodies == {Body_A, Body_B}

\* C6 as stated: a response with a 2xx status and a valid body makes
\* GetSummary return no error and the summary the body spells out
C6_Original ==
  (GotResponse /\ resp.response.readOk /\ Is2xx(StatusCode)
     /\ resp.response.body \in ValidBodies) =>
    /\ ret.err = NoError
    /\ ret.value = SummaryOf(resp.response.body)

\* C6 amended: so it is for the status 200
C6_RoundTrip ==
  (GotResponse /\ resp.response.readOk /\ StatusCode = 200
     /\ resp.response.body \in ValidBodies) =>
    /\ ret.err = NoError
    /\ ret.value = SummaryOf(resp.response.body)

C6_Witness ==
  /\ GotResponse
  /\ StatusCode = 200
  /\ resp.response.body = Body_A
  /\ ret.value.pods = 1

\* C7 as stated: a response with a status that is neither 2xx nor "not
\* found" makes GetSummary return an error IsNotFound rejects, whose
\* message includes the status line and the raw body text
C7_Original ==
  (GotResponse /\ ~Is2xx(StatusCode) /\ StatusCode # StatusNotFound) =>
    /\ ret.err # NoError
    /\ ~IsNotFoundError(ret.err)
    /\ Contains(ErrorText(ret.err), resp.response.status.line)
    /\ Contains(ErrorText(ret.err), resp.response.body)

\* C7 amended: so it is when the body of the response was read without
\* error; the message holds the status line and the body in quoted (%q)
\* form, hence verbatim when %q leaves them as they are
C7_StatusError ==
  (GotResponse /\ resp.response.readOk /\ ~Is2xx(StatusCode)
     /\ StatusCode # StatusNotFound) =>
    /\ ret.err # NoError
    /\ ~IsNotFoundError(ret.err)
    /\ ~ret.decoded
    /\ Contains(ErrorText(ret.err), Quote(resp.response.status.line))
    /\ Contains(ErrorText(ret.err), Quote(resp.response.body))
    /\ Verbatim(resp.response.status.line) =>
         Contains(ErrorText(ret.err), resp.response.status.line)
    /\ Verbatim(resp.response.body) => Contains(ErrorText(ret.err), resp.response.body)

C7_Witness ==
  /\ GotResponse
  /\ resp.response.readOk
  /\ StatusCode = 500
  /\ resp.response.body = Body_A
  /\ ret.err.type = "*errors.errorString"

\* C8 as stated: every call of GetSummary issues exactly one request
C8_Original == Returned => doCalls = 1

\* C8 amended: every call hands at most one request to the HTTP client:
\* one when http.NewRequest accepts the URL, in the configured mode, and
\* none when it rejects the URL, and then the call returns an error
C8_AtMostOnce ==
  Called =>
    /\ doCalls <= 1
    /\ doCalls = 1 <=> hasReq
    /\ (Returned /\ ~hasReq) => (ret.err # NoError /\ ~ret.value.ptr)
    /\ (hasReq /\ cfg.useProxy) => HasPrefix(req.Path, <<"/">> \o ProxyPathPrefix)
    /\ (hasReq /\ ~cfg.useProxy) => req.Path = DirectPath

C8_Witness ==
  /\ Returned
  /\ hasReq
  /\ doCalls = 1
  /\ resp.failed
  /\ resp.cause = ConnectionRefused

\* the request of the call was handed to client.Do and the context was
\* cancelled before client.Do returned a response
CancelledInFlight == hasReq /\ ctxDone

\* C9: a call whose context is cancelled before the response arrives
\* returns a cancellation error and no value
C9_CancelledReturn ==
  (Returned /\ CancelledInFlight) =>
    /\ ret.err = URLError(ContextCanceled)
    /\ ~ret.value.ptr

\* the part of C9 the code keeps: the cancelled call returns, with the
\* cancellation error
C9_CancelledError ==
  (Returned /\ CancelledInFlight) =>
    /\ ret.err = URLError(ContextCanceled)
    /\ ~IsNotFoundError(ret.err)
    /\ ~ret.decoded

C9_EventuallyReturns == (pc = "inflight" /\ ctxDone) ~> Returned

\* C10: in direct mode neither the success of construction nor the URL
\* depends on apiServerHost, and in proxied mode the URL does not depend on
\* port
C10_OnlyConsulted ==
  pc # "new" =>
    /\ ~cfg.useProxy =>
         \A h \in ApiServerHosts :
           LET other == NewClient([cfg EXCEPT !.apiServerHost = h])
           IN /\ other.ok <=> pc # "ctorFailed"
              /\ (other.ok /\ Called) => BuildURL(other.kc, node) = url
    /\ cfg.useProxy =>
         \A p \in Ports :
           LET other == NewClient([cfg EXCEPT !.port = p])
           IN (other.ok /\ Called) => BuildURL(other.kc, node) = url

\* the part of C10 the code keeps: once constructed, the URL of a direct
\* call does not depend on apiServerHost, nor that of a proxied call on port
C10_URLIndependent ==
  Called =>
    /\ ~cfg.useProxy =>
         \A h \in ApiServerHosts :
           LET other == NewClient([cfg EXCEPT !.apiServerHost = h])
           IN other.ok => BuildURL(other.kc, node) = url
    /\ cfg.useProxy =>
         \A p \in Ports :
           LET other == NewClient([cfg EXCEPT !.port = p])
           IN other.ok => BuildURL(other.kc, node) = url

====
